---- MODULE Spec2Model ----
(***************************************************************************)
(* The circuit breaker of gobreaker.go as a state machine.                 *)
(*                                                                         *)
(* cb is the CircuitBreaker struct.  Every exported operation takes        *)
(* cb.mutex for its whole body, so each one is a single atomic action; the *)
(* protected request of Execute runs between two such actions.  The clock  *)
(* value an operation reads with time.Now() is an input of the action; the *)
(* variable now keeps the last value read (the clock never goes back).     *)
(* Times are integers; the zero time.Time is 0 and every clock reading is  *)
(* at least 1, so the zero time is before every reading, as in Go.         *)
(* Counters stay far below 2^32 and the generation far below 2^64 within   *)
(* the bounds, so the wrap-around of uint32/uint64 is never reached.       *)
(***************************************************************************)
EXTENDS Integers, Sequences, FiniteSets, TLC

\* cb is the breaker, now the last reading of the clock, callers what each
\* caller holds, ret what the last operation handed back, misused whether
\* some reporter has been called twice, mutex the breaker's lock.
VARIABLES cb, now, callers, ret, misused, mutex

\* ------------------------------------------------------------- bounds
NCallers == 2
MaxTime == 4
MaxGen == 4
MaxCount == 3
MaxReports == 2
TripAfter == 2

\* ---------------------------------------------------------- constants
StateClosed == "closed"
StateHalfOpen == "half-open"
StateOpen == "open"
States == {StateClosed, StateHalfOpen, StateOpen}

ErrNil == "nil"
ErrTooManyRequests == "too many requests"
ErrOpenState == "circuit breaker is open"

defaultInterval == 0
defaultTimeout == 60
DefaultTripLimit == 5

zeroTime == 0
IsZero(t) == t = zeroTime
Before(t, u) == t < u

\* ------------------------------------------------------------- Counts
ZeroCounts ==
  [Requests |-> 0, TotalSuccesses |-> 0, TotalFailures |-> 0,
   ConsecutiveSuccesses |-> 0, ConsecutiveFailures |-> 0]

CountsOnRequest(c) == [c EXCEPT !.Requests = @ + 1]

CountsOnSuccess(c) ==
  [c EXCEPT !.TotalSuccesses = @ + 1,
            !.ConsecutiveSuccesses = @ + 1,
            !.ConsecutiveFailures = 0]

CountsOnFailure(c) ==
  [c EXCEPT !.TotalFailures = @ + 1,
            !.ConsecutiveFailures = @ + 1,
            !.ConsecutiveSuccesses = 0]

\* Mutant: clear leaves TotalSuccesses as it was.
CountsClear_KeepsSuccesses(c) ==
  [c EXCEPT !.Requests = 0, !.TotalFailures = 0,
            !.ConsecutiveSuccesses = 0, !.ConsecutiveFailures = 0]

CountsClear(c) ==
  [c EXCEPT !.Requests = 0, !.TotalSuccesses = 0, !.TotalFailures = 0,
            !.ConsecutiveSuccesses = 0, !.ConsecutiveFailures = 0]

\* ----------------------------------------------------------- policies
\* Mutant: the default policy trips one failure early.
defaultReadyToTrip_OffByOne(counts) == counts.ConsecutiveFailures >= DefaultTripLimit

defaultReadyToTrip(counts) == counts.ConsecutiveFailures > DefaultTripLimit

\* A caller-supplied Settings.ReadyToTrip: trip on the TripAfter-th failure
\* of the generation.
customReadyToTrip(counts) == counts.TotalFailures >= TripAfter

readyToTrip(b, counts) ==
  IF b.readyToTrip = "default" THEN defaultReadyToTrip(counts)
  ELSE customReadyToTrip(counts)

defaultIsSuccessful(err) == err = ErrNil

\* ------------------------------------------------------------- engine
\* Mutant: a closed generation gets the expiry now + interval even when
\* no interval is configured.
toNewGeneration_ClosedAlwaysExpires(b, t) ==
  [b EXCEPT !.generation = @ + 1,
            !.counts = CountsClear(@),
            !.expiry = CASE b.state = StateClosed -> t + b.interval
                         []   b.state = StateOpen -> t + b.timeout
                         []   OTHER -> zeroTime]

\* Mutant: the new generation keeps the counts of the old one.
toNewGeneration_KeepsCounts(b, t) ==
  [b EXCEPT !.generation = @ + 1,
            !.expiry = CASE b.state = StateClosed ->
                              IF b.interval = 0 THEN zeroTime ELSE t + b.interval
                         []   b.state = StateOpen -> t + b.timeout
                         []   OTHER -> zeroTime]

toNewGeneration(b, t) ==
  [b EXCEPT !.generation = @ + 1,
            !.counts = CountsClear(@),
            !.expiry = CASE b.state = StateClosed ->
                              IF b.interval = 0 THEN zeroTime ELSE t + b.interval
                         []   b.state = StateOpen -> t + b.timeout
                         []   OTHER -> zeroTime]

\* Mutant: the callback is called before the new generation is started.
setState_CallbackFirst(b, st, t) ==
  IF b.state = st THEN b
  ELSE LET prev == b.state
           ob == [b EXCEPT !.state = st]
           nb == toNewGeneration(ob, t)
       IN  [nb EXCEPT !.onStateChange = Append(@, <<prev, st>>),
                      !.seen = Append(@, <<ob.state, ob.generation, ob.counts>>)]

\* The field onStateChange holds the calls (from, to) of the callback
\* that the operation in progress has made, in order, and the field seen
\* holds the state, generation and counts of the breaker at each call.
setState(b, st, t) ==
  IF b.state = st THEN b
  ELSE LET prev == b.state
           nb == toNewGeneration([b EXCEPT !.state = st], t)
       IN  [nb EXCEPT !.onStateChange = Append(@, <<prev, st>>),
                      !.seen = Append(@, <<nb.state, nb.generation, nb.counts>>)]

\* Mutant: an expired open state goes straight to closed.
currentState_SkipsHalfOpen(b, t) ==
  CASE b.state = StateClosed ->
         IF ~IsZero(b.expiry) /\ Before(b.expiry, t) THEN toNewGeneration(b, t) ELSE b
  []   b.state = StateOpen ->
         IF Before(b.expiry, t) THEN setState(b, StateClosed, t) ELSE b
  []   OTHER -> b

\* Mutant: the closed state has no interval rollover.
currentState_NoRollover(b, t) ==
  CASE b.state = StateOpen ->
         IF Before(b.expiry, t) THEN setState(b, StateHalfOpen, t) ELSE b
  []   OTHER -> b

\* Mutant: a half-open breaker opens again as soon as the clock has moved
\* on from the last reading.
currentState_HalfOpenAges(b, t) ==
  CASE b.state = StateClosed ->
         IF ~IsZero(b.expiry) /\ Before(b.expiry, t) THEN toNewGeneration(b, t) ELSE b
  []   b.state = StateOpen ->
         IF Before(b.expiry, t) THEN setState(b, StateHalfOpen, t) ELSE b
  []   OTHER ->
         IF Before(now, t) THEN setState(b, StateOpen, t) ELSE b

\* Mutant: the open-state test compares the wrong way round.
currentState_Reversed(b, t) ==
  CASE b.state = StateClosed ->
         IF ~IsZero(b.expiry) /\ Before(b.expiry, t) THEN toNewGeneration(b, t) ELSE b
  []   b.state = StateOpen ->
         IF Before(t, b.expiry) THEN setState(b, StateHalfOpen, t) ELSE b
  []   OTHER -> b

\* The breaker after currentState(now); the pair the code returns is
\* (state, generation) of the result.
currentState(b, t) ==
  CASE b.state = StateClosed ->
         IF ~IsZero(b.expiry) /\ Before(b.expiry, t) THEN toNewGeneration(b, t) ELSE b
  []   b.state = StateOpen ->
         IF Before(b.expiry, t) THEN setState(b, StateHalfOpen, t) ELSE b
  []   OTHER -> b

\* Mutant: the request is counted before it is accepted or rejected.
beforeRequest_CountsFirst(b, t) ==
  LET cs == currentState(b, t)
      nb == [cs EXCEPT !.counts = CountsOnRequest(@)]
  IN  IF cs.state = StateOpen
        THEN [cb |-> nb, generation |-> nb.generation, err |-> ErrOpenState]
      ELSE IF cs.state = StateHalfOpen /\ cs.counts.Requests >= cs.maxRequests
        THEN [cb |-> nb, generation |-> nb.generation, err |-> ErrTooManyRequests]
      ELSE [cb |-> nb, generation |-> nb.generation, err |-> ErrNil]

\* Mutant: the open state admits requests.
beforeRequest_AdmitsOpen(b, t) ==
  LET nb == currentState(b, t)
  IN  IF nb.state = StateHalfOpen /\ nb.counts.Requests >= nb.maxRequests
        THEN [cb |-> nb, generation |-> nb.generation, err |-> ErrTooManyRequests]
      ELSE [cb |-> [nb EXCEPT !.counts = CountsOnRequest(@)],
            generation |-> nb.generation, err |-> ErrNil]

\* Mutant: the half-open quota is tested with > instead of >=.
beforeRequest_OffByOne(b, t) ==
  LET nb == currentState(b, t)
  IN  IF nb.state = StateOpen
        THEN [cb |-> nb, generation |-> nb.generation, err |-> ErrOpenState]
      ELSE IF nb.state = StateHalfOpen /\ nb.counts.Requests > nb.maxRequests
        THEN [cb |-> nb, generation |-> nb.generation, err |-> ErrTooManyRequests]
      ELSE [cb |-> [nb EXCEPT !.counts = CountsOnRequest(@)],
            generation |-> nb.generation, err |-> ErrNil]

\* Mutant: the rejection looks at the state held before currentState ran.
beforeRequest_StaleState(b, t) ==
  LET nb == currentState(b, t)
  IN  IF b.state = StateOpen
        THEN [cb |-> nb, generation |-> nb.generation, err |-> ErrOpenState]
      ELSE IF nb.state = StateHalfOpen /\ nb.counts.Requests >= nb.maxRequests
        THEN [cb |-> nb, generation |-> nb.generation, err |-> ErrTooManyRequests]
      ELSE [cb |-> [nb EXCEPT !.counts = CountsOnRequest(@)],
            generation |-> nb.generation, err |-> ErrNil]

beforeRequest(b, t) ==
  LET nb == currentState(b, t)
  IN  IF nb.state = StateOpen
        THEN [cb |-> nb, generation |-> nb.generation, err |-> ErrOpenState]
      ELSE IF nb.state = StateHalfOpen /\ nb.counts.Requests >= nb.maxRequests
        THEN [cb |-> nb, generation |-> nb.generation, err |-> ErrTooManyRequests]
      ELSE [cb |-> [nb EXCEPT !.counts = CountsOnRequest(@)],
            generation |-> nb.generation, err |-> ErrNil]

\* Mutant: a half-open success is counted but never closes the breaker.
onSuccess_NeverCloses(b, st, t) ==
  CASE st \in {StateClosed, StateHalfOpen} -> [b EXCEPT !.counts = CountsOnSuccess(@)]
  []   OTHER -> b

\* Mutant: half-open closes on its first success.
onSuccess_ClosesEarly(b, st, t) ==
  CASE st = StateClosed -> [b EXCEPT !.counts = CountsOnSuccess(@)]
  []   st = StateHalfOpen ->
         setState([b EXCEPT !.counts = CountsOnSuccess(@)], StateClosed, t)
  []   OTHER -> b

\* Mutant: half-open closes only above maxRequests successes.
onSuccess_OffByOne(b, st, t) ==
  CASE st = StateClosed -> [b EXCEPT !.counts = CountsOnSuccess(@)]
  []   st = StateHalfOpen ->
         LET nb == [b EXCEPT !.counts = CountsOnSuccess(@)]
         IN  IF nb.counts.ConsecutiveSuccesses > nb.maxRequests
               THEN setState(nb, StateClosed, t)
               ELSE nb
  []   OTHER -> b

onSuccess(b, st, t) ==
  CASE st = StateClosed -> [b EXCEPT !.counts = CountsOnSuccess(@)]
  []   st = StateHalfOpen ->
         LET nb == [b EXCEPT !.counts = CountsOnSuccess(@)]
         IN  IF nb.counts.ConsecutiveSuccesses >= nb.maxRequests
               THEN setState(nb, StateClosed, t)
               ELSE nb
  []   OTHER -> b

\* Mutant: a half-open failure is counted and judged by readyToTrip.
onFailure_HalfOpenCounted(b, st, t) ==
  LET nb == [b EXCEPT !.counts = CountsOnFailure(@)]
  IN  CASE st \in {StateClosed, StateHalfOpen} ->
             IF readyToTrip(nb, nb.counts) THEN setState(nb, StateOpen, t) ELSE nb
      []   OTHER -> b

\* Mutant: a closed-state failure trips whatever readyToTrip says.
onFailure_AlwaysTrips(b, st, t) ==
  CASE st = StateClosed ->
         setState([b EXCEPT !.counts = CountsOnFailure(@)], StateOpen, t)
  []   st = StateHalfOpen -> setState(b, StateOpen, t)
  []   OTHER -> b

\* Mutant: a closed-state failure is recorded but never trips.
onFailure_NeverTrips(b, st, t) ==
  CASE st = StateClosed -> [b EXCEPT !.counts = CountsOnFailure(@)]
  []   st = StateHalfOpen -> setState(b, StateOpen, t)
  []   OTHER -> b

onFailure(b, st, t) ==
  CASE st = StateClosed ->
         LET nb == [b EXCEPT !.counts = CountsOnFailure(@)]
         IN  IF readyToTrip(nb, nb.counts) THEN setState(nb, StateOpen, t) ELSE nb
  []   st = StateHalfOpen -> setState(b, StateOpen, t)
  []   OTHER -> b

\* Mutant: the report is applied without comparing generations.
afterRequest_NoGenerationCheck(b, before, success, t) ==
  LET nb == currentState(b, t)
  IN  IF success THEN onSuccess(nb, nb.state, t)
      ELSE onFailure(nb, nb.state, t)

afterRequest(b, before, success, t) ==
  LET nb == currentState(b, t)
  IN  IF nb.generation # before THEN nb
      ELSE IF success THEN onSuccess(nb, nb.state, t)
      ELSE onFailure(nb, nb.state, t)

\* ------------------------------------------------------- construction
\* Settings.IsSuccessful is nil in every breaker built here (the default
\* classifier applies), and Settings.ReadyToTrip is nil or the policy
\* customReadyToTrip.
\* The Settings a breaker is constructed with: the zero Settings (every
\* default applies), and settings that set every field.
AllSettings ==
  {[MaxRequests |-> 0, Interval |-> 0, Timeout |-> 0, ReadyToTrip |-> "nil"],
   [MaxRequests |-> 0, Interval |-> -1, Timeout |-> 1, ReadyToTrip |-> "custom"],
   [MaxRequests |-> 2, Interval |-> 2, Timeout |-> 1, ReadyToTrip |-> "custom"],
   [MaxRequests |-> 2, Interval |-> 0, Timeout |-> -1, ReadyToTrip |-> "custom"]}

NewCircuitBreaker(st, t) ==
  toNewGeneration(
    [maxRequests |-> IF st.MaxRequests = 0 THEN 1 ELSE st.MaxRequests,
     interval |-> IF st.Interval <= 0 THEN defaultInterval ELSE st.Interval,
     timeout |-> IF st.Timeout <= 0 THEN defaultTimeout ELSE st.Timeout,
     readyToTrip |-> IF st.ReadyToTrip = "nil" THEN "default" ELSE "custom",
     onStateChange |-> << >>,
     seen |-> << >>,
     state |-> StateClosed,
     generation |-> 0,
     counts |-> ZeroCounts,
     expiry |-> zeroTime], t)

\* -------------------------------------------------------------- state
vars == <<cb, now, callers, ret, misused, mutex>>

\* cb.mutex: every operation takes it on entry and its deferred Unlock
\* gives it back when the operation returns.
Unlocked == "unlocked"
Lock == mutex = Unlocked
Unlock == mutex' = Unlocked

Callers == 1..NCallers

Idle == [pc |-> "idle", token |-> 0, reports |-> 0]

\* The counters of a generation are followed up to MaxCount, and under the
\* default ReadyToTrip up to the count at which that policy trips.
CountCap ==
  IF cb.readyToTrip = "default" /\ MaxCount <= DefaultTripLimit
    THEN DefaultTripLimit + 1 ELSE MaxCount

CanAdmit == cb.counts.Requests < CountCap

CanReport == cb.counts.TotalSuccesses + cb.counts.TotalFailures < CountCap

\* What the last operation was and what it handed back to its caller.
Ret(op, err) == [op |-> op, err |-> err, result |-> "nil"]

\* The result that req returns together with err.
ReqResult(err) == IF err = ErrNil THEN "result" ELSE "nil"

\* The clock readings an operation can make: the clock has not moved, it
\* has moved by one unit (up to MaxTime), or it has moved to the expiry
\* not yet passed or one unit past it (so the clock can always pass a
\* recorded expiry).
Times ==
  {now}
    \cup (IF now < MaxTime THEN {now + 1} ELSE {})
    \cup (IF cb.expiry >= now THEN {cb.expiry, cb.expiry + 1} ELSE {})

\* The operation starts: the record of callbacks made is that of this call.
Enter == [cb EXCEPT !.onStateChange = << >>, !.seen = << >>]

Init ==
  /\ now = 1
  /\ \E st \in AllSettings : cb = NewCircuitBreaker(st, 1)
  /\ callers = [c \in Callers |-> Idle]
  /\ ret = Ret("NewCircuitBreaker", ErrNil)
  /\ misused = FALSE
  /\ mutex = Unlocked

\* Admission, shared by Execute and Allow: pc names what the caller holds.
Admit(c, t, op, pc) ==
  /\ callers[c].pc = "idle"
  /\ cb.generation < MaxGen
  /\ CanAdmit
  /\ Lock
  /\ LET r == beforeRequest(Enter, t)
     IN  /\ cb' = r.cb
         /\ Unlock
         /\ now' = t
         /\ callers' = [callers EXCEPT ![c] =
                          IF r.err = ErrNil
                            THEN [pc |-> pc, token |-> r.generation, reports |-> 0]
                            ELSE Idle]
         /\ ret' = Ret(op, r.err)
         /\ UNCHANGED misused

\* Mutant: Execute keeps the mutex while req runs.
Execute_HoldsLock(c, t) ==
  /\ callers[c].pc = "idle"
  /\ cb.generation < MaxGen
  /\ CanAdmit
  /\ Lock
  /\ LET r == beforeRequest(Enter, t)
     IN  /\ cb' = r.cb
         /\ mutex' = IF r.err = ErrNil THEN "held" ELSE Unlocked
         /\ now' = t
         /\ callers' = [callers EXCEPT ![c] =
                          IF r.err = ErrNil
                            THEN [pc |-> "req", token |-> r.generation, reports |-> 0]
                            ELSE Idle]
         /\ ret' = Ret("Execute", r.err)
         /\ UNCHANGED misused

\* Execute that calls req whatever beforeRequest answered.
Execute_RunsRejected(c, t) ==
  /\ callers[c].pc = "idle"
  /\ cb.generation < MaxGen
  /\ CanAdmit
  /\ Lock
  /\ LET r == beforeRequest(Enter, t)
     IN  /\ cb' = r.cb
         /\ Unlock
         /\ now' = t
         /\ callers' = [callers EXCEPT ![c] =
                          [pc |-> "req", token |-> r.generation, reports |-> 0]]
         /\ ret' = Ret("Execute", r.err)
         /\ UNCHANGED misused

\* Execute up to the call of req: rejected, or admitted with req running.
Execute(c, t) == Admit(c, t, "Execute", "req")

\* req returned err; Execute reports isSuccessful(err) and returns.
ExecuteReturn(c, t, err) ==
  /\ callers[c].pc = "req"
  /\ cb.generation < MaxGen
  /\ CanReport
  /\ Lock
  /\ Unlock
  /\ cb' = afterRequest(Enter, callers[c].token, defaultIsSuccessful(err), t)
  /\ now' = t
  /\ callers' = [callers EXCEPT ![c] = Idle]
  /\ ret' = [Ret("ExecuteReturn", err) EXCEPT !.result = ReqResult(err)]
  /\ UNCHANGED misused

\* req panicked; the deferred function reports a failure and panics again.
ExecutePanic(c, t) ==
  /\ callers[c].pc = "req"
  /\ cb.generation < MaxGen
  /\ CanReport
  /\ Lock
  /\ Unlock
  /\ cb' = afterRequest(Enter, callers[c].token, FALSE, t)
  /\ now' = t
  /\ callers' = [callers EXCEPT ![c] = Idle]
  /\ ret' = Ret("ExecutePanic", "panic")
  /\ UNCHANGED misused

Allow(c, t) == Admit(c, t, "Allow", "done")

\* The caller calls the reporter that Allow returned.
Done(c, t, success) ==
  /\ callers[c].pc = "done"
  /\ callers[c].reports < MaxReports
  /\ cb.generation < MaxGen
  /\ CanReport
  /\ Lock
  /\ Unlock
  /\ cb' = afterRequest(Enter, callers[c].token, success, t)
  /\ now' = t
  /\ callers' = [callers EXCEPT ![c].reports = @ + 1]
  /\ ret' = Ret("done", ErrNil)
  /\ misused' = (misused \/ callers[c].reports >= 1)

\* The caller lets go of the reporter (having called it or not).
Discard(c) ==
  /\ callers[c].pc = "done"
  /\ callers' = [callers EXCEPT ![c] = Idle]
  /\ ret' = Ret("discard", ErrNil)
  /\ UNCHANGED <<cb, now, misused, mutex>>

\* req panicked with a nil value in a build whose recover() returns nil
\* for it (Go before 1.21, or GODEBUG=panicnil=1): the deferred function
\* sees e == nil, reports nothing and does not panic again, and Execute
\* returns (nil, nil).
ExecuteRecoverNil(c) ==
  /\ callers[c].pc = "req"
  /\ callers' = [callers EXCEPT ![c] = Idle]
  /\ ret' = Ret("ExecuteRecoverNil", ErrNil)
  /\ UNCHANGED <<cb, now, misused, mutex>>

State(t) ==
  /\ cb.generation < MaxGen
  /\ Lock
  /\ Unlock
  /\ cb' = currentState(Enter, t)
  /\ now' = t
  /\ ret' = Ret("State", ErrNil)
  /\ UNCHANGED <<callers, misused>>

\* Counts() hands back a copy of cb.counts.
Counts ==
  /\ Lock
  /\ Unlock
  /\ ret' = Ret("Counts", ErrNil)
  /\ UNCHANGED <<cb, now, callers, misused>>

Next ==
  \/ \E c \in Callers, t \in Times : Execute(c, t)
  \/ \E c \in Callers, t \in Times, err \in {ErrNil, "error"} : ExecuteReturn(c, t, err)
  \/ \E c \in Callers, t \in Times : ExecutePanic(c, t)
  \/ \E c \in Callers, t \in Times : Allow(c, t)
  \/ \E c \in Callers, t \in Times, success \in BOOLEAN : Done(c, t, success)
  \/ \E c \in Callers : Discard(c)
  \/ \E c \in Callers : ExecuteRecoverNil(c)
  \/ \E t \in Times : State(t)
  \/ Counts

Spec == Init /\ [][Next]_vars

\* ------------------------------------------------- well-behaved callers
\* Callers that call every reporter exactly once and whose req returns or
\* panics with a value that recover() hands back.
DoneOnce(c, t, success) == callers[c].reports = 0 /\ Done(c, t, success)

DiscardReported(c) == callers[c].reports = 1 /\ Discard(c)

\* Some operation is made at a clock reading later than the expiry of the
\* open state.
LateCall ==
  \E t \in Times :
    /\ cb.state = StateOpen
    /\ Before(cb.expiry, t)
    /\ \/ State(t)
       \/ \E c \in Callers : Execute(c, t) \/ Allow(c, t)
       \/ \E c \in Callers, success \in BOOLEAN : DoneOnce(c, t, success)
       \/ \E c \in Callers, err \in {ErrNil, "error"} : ExecuteReturn(c, t, err)
       \/ \E c \in Callers : ExecutePanic(c, t)

\* Caller c attempts admission.
Attempt(c) == \E t \in Times : Execute(c, t) \/ Allow(c, t)

\* The request that caller c had admitted reports its outcome.
Outcome(c) ==
  \E t \in Times :
    \/ \E success \in BOOLEAN : DoneOnce(c, t, success)
    \/ \E err \in {ErrNil, "error"} : ExecuteReturn(c, t, err)
    \/ ExecutePanic(c, t)

BehavedNext ==
  \/ \E c \in Callers, t \in Times : Execute(c, t)
  \/ \E c \in Callers, t \in Times, err \in {ErrNil, "error"} : ExecuteReturn(c, t, err)
  \/ \E c \in Callers, t \in Times : ExecutePanic(c, t)
  \/ \E c \in Callers, t \in Times : Allow(c, t)
  \/ \E c \in Callers, t \in Times, success \in BOOLEAN : DoneOnce(c, t, success)
  \/ \E c \in Callers : DiscardReported(c)
  \/ \E t \in Times : State(t)
  \/ Counts

\* Callers keep attempting admission, every admitted request reports its
\* outcome, a reporter that has been called is let go, and the clock
\* passes the expiry of an open state and a call is made then.
Fairness ==
  /\ \A c \in Callers : WF_vars(Attempt(c))
  /\ \A c \in Callers : WF_vars(Outcome(c))
  /\ \A c \in Callers : WF_vars(DiscardReported(c))
  /\ WF_vars(LateCall)

FairSpec == Init /\ [][BehavedNext]_vars /\ Fairness

\* ------------------------------------------------------------- claims
\* A report afterRequest(callers[c].token, success) made by caller c at
\* time t: through the reporter of Allow, or by Execute when req returns
\* or panics.
Report(c, t, success) ==
  \/ Done(c, t, success)
  \/ success /\ ExecuteReturn(c, t, ErrNil)
  \/ ~success /\ (ExecuteReturn(c, t, "error") \/ ExecutePanic(c, t))

\* An admission attempt beforeRequest() made by caller c at time t.
Admission(c, t) == Execute(c, t) \/ Allow(c, t)

ReportOps == {"done", "ExecuteReturn", "ExecutePanic"}
AdmissionOps == {"Execute", "Allow"}

\* The observable part of the breaker.
Observed(b) == <<b.state, b.generation, b.counts>>

\* A time-driven change is due at time t.
Due(b, t) ==
  \/ b.state = StateClosed /\ b.expiry # zeroTime /\ b.expiry < t
  \/ b.state = StateOpen /\ b.expiry < t

\* C1 as stated: a report whose token differs from the generation that
\* currentState(now) returns at report time leaves state, generation and
\* all five counts as they were before the call.
C1_StaleReportLeavesAllUnchanged ==
  [][\A c \in Callers, t \in Times, success \in BOOLEAN :
       (Report(c, t, success) /\ currentState(cb, t).generation # callers[c].token)
         => Observed(cb') = Observed(cb)]_vars

\* C1 amended: a report whose token differs from the generation at report
\* time adds nothing to what currentState(now) does by itself: state,
\* generation, counts and expiry are those a State() query made at the same
\* instant would leave, whatever the success flag is, and they are the same
\* as before the call when no closed-state interval or open-state timeout
\* has expired.
C1_StaleReportOnlyRunsClock ==
  [][\A c \in Callers, t \in Times, success \in BOOLEAN :
       (Report(c, t, success) /\ currentState(cb, t).generation # callers[c].token)
         => /\ Observed(cb') = Observed(currentState(cb, t))
            /\ cb'.expiry = currentState(cb, t).expiry
            /\ (~Due(cb, t) => Observed(cb') = Observed(cb) /\ cb'.expiry = cb.expiry)
            /\ (Due(cb, t) => cb'.generation = cb.generation + 1 /\ cb'.counts = ZeroCounts)]_vars

\* The last operation was a report, and every reporter still held (the one
\* just called among them) carries a token at least two generations old,
\* so the report was stale when it was made; counts of the current
\* generation are in place.
C1_Witness ==
  /\ ret.op = "done"
  /\ \A c \in Callers : callers[c].pc = "done" => callers[c].token + 2 <= cb.generation
  /\ cb.state = StateClosed
  /\ cb.counts.Requests = 1

\* C2: whenever the breaker is half-open, counts.Requests <= maxRequests,
\* and an admission attempt that finds the half-open quota used up is
\* rejected with ErrTooManyRequests and changes nothing.
C2_HalfOpenQuota ==
  [][/\ (cb'.state = StateHalfOpen => cb'.counts.Requests <= cb'.maxRequests)
     /\ \A c \in Callers, t \in Times :
          (Admission(c, t) /\ cb.state = StateHalfOpen
                           /\ cb.counts.Requests >= cb.maxRequests)
            => /\ ret'.err = ErrTooManyRequests
               /\ callers'[c] = Idle
               /\ Observed(cb') = Observed(cb)]_vars

\* A half-open breaker with maxRequests = 2 has admitted two requests and
\* has just rejected a third attempt.
C2_Witness ==
  /\ cb.state = StateHalfOpen
  /\ cb.maxRequests = 2
  /\ cb.counts.Requests = 2
  /\ ret.op \in AdmissionOps
  /\ ret.err = ErrTooManyRequests

\* C3: the transition to Open at time T sets the expiry to T + timeout, and
\* every admission attempt made while Open at a time strictly before that
\* expiry is rejected with ErrOpenState, the breaker staying Open in the
\* same generation.
C3_OpenRejectsBeforeTimeout ==
  [][/\ (cb.state # StateOpen /\ cb'.state = StateOpen
           => cb'.expiry = now' + cb.timeout)
     /\ \A c \in Callers, t \in Times :
          (Admission(c, t) /\ cb.state = StateOpen /\ t < cb.expiry)
            => /\ ret'.err = ErrOpenState
               /\ callers'[c] = Idle
               /\ Observed(cb') = Observed(cb)]_vars

\* An admission attempt made after the trip, with time having advanced but
\* not to the expiry, was rejected with ErrOpenState.
C3_Witness ==
  /\ cb.state = StateOpen
  /\ ret.op \in AdmissionOps
  /\ ret.err = ErrOpenState
  /\ cb.expiry - cb.timeout < now
  /\ now < cb.expiry

\* C4 as stated: an admission attempt that finds the breaker Open at or
\* after T + timeout (the expiry) moves it to HalfOpen and is admitted.
C4_AdmittedAtOrAfterTimeout ==
  [][\A c \in Callers, t \in Times :
       (Admission(c, t) /\ cb.state = StateOpen /\ t >= cb.expiry)
         => cb'.state = StateHalfOpen /\ ret'.err = ErrNil]_vars

\* C4 amended: the first admission attempt made strictly after T + timeout
\* is admitted as a probe: if it finds the breaker Open it moves it to
\* HalfOpen in a new generation before the admission is evaluated, and if
\* an earlier State() or report already made it HalfOpen the quota is still
\* untouched; an attempt at exactly T + timeout is still rejected with
\* ErrOpenState.
C4_AdmittedAfterTimeout ==
  [][\A c \in Callers, t \in Times :
       /\ (Admission(c, t) /\ cb.state = StateOpen /\ t > cb.expiry)
            => /\ cb'.state = StateHalfOpen
               /\ cb'.generation = cb.generation + 1
               /\ cb'.counts = CountsOnRequest(ZeroCounts)
               /\ ret'.err = ErrNil
               /\ callers'[c].token = cb'.generation
       /\ (Admission(c, t) /\ cb.state = StateHalfOpen /\ cb.counts.Requests = 0)
            => /\ cb'.state = StateHalfOpen
               /\ cb'.counts = CountsOnRequest(ZeroCounts)
               /\ ret'.err = ErrNil
       /\ (Admission(c, t) /\ cb.state = StateOpen /\ t = cb.expiry)
            => cb'.state = StateOpen /\ ret'.err = ErrOpenState]_vars

\* An admission attempt has just moved the breaker from Open to HalfOpen
\* and been admitted as its first probe.
C4_Witness ==
  /\ cb.state = StateHalfOpen
  /\ cb.onStateChange = <<<<StateOpen, StateHalfOpen>>>>
  /\ ret.op \in AdmissionOps
  /\ ret.err = ErrNil
  /\ cb.counts.Requests = 1

\* C5: a success report carrying the current token while HalfOpen closes
\* the breaker exactly when it makes consecutiveSuccesses reach maxRequests
\* (new generation, counts zero); any earlier success report is recorded
\* and leaves the breaker HalfOpen in the same generation.  While HalfOpen
\* every recorded report is a success, so consecutiveSuccesses counts the
\* success reports of the generation and stays below maxRequests.
C5_HalfOpenClosesOnMaxRequestsSuccesses ==
  [][/\ \A c \in Callers, t \in Times :
          (Report(c, t, TRUE) /\ cb.state = StateHalfOpen
                              /\ callers[c].token = cb.generation)
            => IF cb.counts.ConsecutiveSuccesses + 1 >= cb.maxRequests
                 THEN /\ cb'.state = StateClosed
                      /\ cb'.generation = cb.generation + 1
                      /\ cb'.counts = ZeroCounts
                 ELSE /\ cb'.state = StateHalfOpen
                      /\ cb'.generation = cb.generation
                      /\ cb'.counts = CountsOnSuccess(cb.counts)
     /\ (cb'.state = StateHalfOpen
           => /\ cb'.counts.ConsecutiveSuccesses < cb'.maxRequests
              /\ cb'.counts.ConsecutiveSuccesses = cb'.counts.TotalSuccesses
              /\ cb'.counts.TotalFailures = 0)]_vars

\* With maxRequests = 2, the second success report has just closed the
\* half-open breaker.
C5_Witness ==
  /\ cb.maxRequests = 2
  /\ cb.state = StateClosed
  /\ cb.onStateChange = <<<<StateHalfOpen, StateClosed>>>>
  /\ ret.op \in ReportOps
  /\ cb.counts = ZeroCounts

\* C6: a failure report carrying the current token while HalfOpen moves the
\* breaker to Open at once, whatever successes were recorded before it:
\* after the report the state is Open, the generation is new and all
\* counts are zero.
C6_HalfOpenFailureOpens ==
  [][\A c \in Callers, t \in Times :
       (Report(c, t, FALSE) /\ cb.state = StateHalfOpen
                            /\ callers[c].token = cb.generation)
         => /\ cb'.state = StateOpen
            /\ cb'.generation = cb.generation + 1
            /\ cb'.counts = ZeroCounts
            /\ cb'.expiry = t + cb.timeout
            /\ cb'.onStateChange = <<<<StateHalfOpen, StateOpen>>>>]_vars

\* A failure report has just reopened a half-open breaker.
C6_Witness ==
  /\ cb.state = StateOpen
  /\ cb.onStateChange = <<<<StateHalfOpen, StateOpen>>>>
  /\ ret.op \in ReportOps
  /\ cb.counts = ZeroCounts

\* C7: the breaker leaves Closed only by a failure report that carries the
\* current token and after which readyToTrip holds of the running counts,
\* and then it goes to Open; a failure report after which readyToTrip is
\* false is recorded and leaves it Closed, and so does every success
\* report.
C7_ClosedStaysClosedUnlessReadyToTrip ==
  [][/\ (cb.state = StateClosed /\ cb'.state # StateClosed)
          => /\ cb'.state = StateOpen
             /\ \E c \in Callers, t \in Times :
                  /\ Report(c, t, FALSE)
                  /\ callers[c].token = cb.generation
                  /\ readyToTrip(cb, CountsOnFailure(cb.counts))
     /\ \A c \in Callers, t \in Times :
          /\ (Report(c, t, FALSE) /\ cb.state = StateClosed
                /\ callers[c].token = currentState(cb, t).generation
                /\ ~readyToTrip(cb, CountsOnFailure(cb.counts)))
               => /\ cb'.state = StateClosed
                  /\ cb'.generation = cb.generation
                  /\ cb'.counts = CountsOnFailure(cb.counts)
          /\ (Report(c, t, TRUE) /\ cb.state = StateClosed)
               => cb'.state = StateClosed]_vars

\* A failure was reported and recorded in Closed state with readyToTrip
\* false, and the breaker is still Closed.
C7_Witness ==
  /\ cb.state = StateClosed
  /\ ret.op \in ReportOps
  /\ ret.err # ErrNil
  /\ cb.counts.TotalFailures >= 1
  /\ cb.counts.ConsecutiveFailures >= 1
  /\ ~readyToTrip(cb, cb.counts)

\* The operation before this one was the failure report that tripped the
\* breaker (its onStateChange(closed, open) call is the record of it).
JustTripped == cb.onStateChange = <<<<StateClosed, StateOpen>>>>

\* C8 as stated: the State() query or admission attempt that comes next
\* after the tripping failure report observes Open.
C8_NextQueryObservesOpen ==
  [][\A c \in Callers, t \in Times :
       /\ (JustTripped /\ State(t)) => cb'.state = StateOpen
       /\ (JustTripped /\ Admission(c, t))
            => cb'.state = StateOpen /\ ret'.err = ErrOpenState]_vars

\* C8 amended: a failure report applied in Closed state after which
\* readyToTrip holds leaves the breaker Open on its return, and the next
\* State() query or admission attempt observes Open (the admission is
\* rejected with ErrOpenState) provided it is made no later than
\* T + timeout, T being the time of that report.
C8_NextQueryObservesOpenWithinTimeout ==
  [][\A c \in Callers, t \in Times :
       /\ (Report(c, t, FALSE) /\ cb.state = StateClosed
             /\ callers[c].token = currentState(cb, t).generation
             /\ readyToTrip(cb, CountsOnFailure(cb.counts)))
            => /\ cb'.state = StateOpen
               /\ cb'.expiry = t + cb.timeout
               /\ JustTripped'
       /\ (JustTripped /\ State(t) /\ t <= cb.expiry) => cb'.state = StateOpen
       /\ (JustTripped /\ Admission(c, t) /\ t <= cb.expiry)
            => cb'.state = StateOpen /\ ret'.err = ErrOpenState]_vars

\* A State() query has observed Open in the generation that follows the
\* first one, within the timeout.
C8_Witness ==
  /\ ret.op = "State"
  /\ cb.state = StateOpen
  /\ cb.generation = 2
  /\ now <= cb.expiry

\* The breaker was built from the zero Settings.
DefaultSettings ==
  /\ cb.readyToTrip = "default"
  /\ cb.interval = 0
  /\ cb.timeout = 60
  /\ cb.maxRequests = 1

\* C9: with default settings a breaker is Closed while it has recorded at
\* most 5 consecutive failures: each of the first 5 consecutive failure
\* reports (of requests admitted in the current generation) is recorded and leaves it Closed, the 6th trips it to Open, and
\* a success report sets the count of consecutive failures back to zero.
\* Nothing but reports changes the count of consecutive failures while it
\* is Closed.
C9_DefaultTripsOnSixthFailure ==
  [][DefaultSettings =>
       /\ (cb'.state = StateClosed => cb'.counts.ConsecutiveFailures <= 5)
       /\ \A c \in Callers, t \in Times :
            /\ (Report(c, t, FALSE) /\ cb.state = StateClosed
                                     /\ callers[c].token = cb.generation)
                 => IF cb.counts.ConsecutiveFailures < 5
                      THEN /\ cb'.state = StateClosed
                           /\ cb'.counts.ConsecutiveFailures
                                = cb.counts.ConsecutiveFailures + 1
                      ELSE /\ cb'.state = StateOpen
                           /\ cb'.generation = cb.generation + 1
            /\ (Report(c, t, TRUE) /\ cb.state = StateClosed
                                    /\ callers[c].token = cb.generation)
                 => cb'.state = StateClosed /\ cb'.counts.ConsecutiveFailures = 0
            /\ ((Admission(c, t) \/ State(t)) /\ cb.state = StateClosed)
                 => /\ cb'.state = StateClosed
                    /\ cb'.counts.ConsecutiveFailures = cb.counts.ConsecutiveFailures]_vars

\* With default settings the sixth consecutive failure report has just
\* tripped the breaker.
C9_Witness ==
  /\ DefaultSettings
  /\ cb.state = StateOpen
  /\ JustTripped
  /\ cb.generation = 2
  /\ ret.op \in ReportOps

\* C10 as stated: totalSuccesses + totalFailures <= requests in every
\* reachable state, reporters called more than once included.
C10_ReportsWithinRequests ==
  cb.counts.TotalSuccesses + cb.counts.TotalFailures <= cb.counts.Requests

\* C10 amended: totalSuccesses + totalFailures <= requests in every state
\* reached by Execute, Allow and reporter calls in which no reporter has
\* been called more than once (reporters never called included).
C10_ReportsWithinRequestsWhenReportedOnce ==
  ~misused =>
    cb.counts.TotalSuccesses + cb.counts.TotalFailures <= cb.counts.Requests

\* Three requests were admitted in one generation, one reported success,
\* one reported failure, and one has not reported; no reporter was called
\* twice.
C10_Witness ==
  /\ ~misused
  /\ cb.counts.Requests = 3
  /\ cb.counts.TotalSuccesses = 1
  /\ cb.counts.TotalFailures = 1

\* C11: an Execute whose beforeRequest answers ErrOpenState or
\* ErrTooManyRequests returns a nil result and that error without calling
\* req; an admitted Execute calls req once, with the generation of the
\* admission as its token, and returns the result and the error of req as
\* they are; a caller whose req is running does not start it again.
C11_ExecuteCallsReqOnceIffAdmitted ==
  [][\A c \in Callers, t \in Times :
       /\ Execute(c, t) =>
            LET r == beforeRequest(Enter, t)
            IN  IF r.err = ErrNil
                  THEN callers'[c] = [pc |-> "req", token |-> r.generation, reports |-> 0]
                  ELSE /\ r.err \in {ErrOpenState, ErrTooManyRequests}
                       /\ callers'[c] = Idle
                       /\ ret' = [op |-> "Execute", err |-> r.err, result |-> "nil"]
       /\ \A err \in {ErrNil, "error"} :
            ExecuteReturn(c, t, err) =>
              /\ callers'[c] = Idle
              /\ ret'.err = err
              /\ ret'.result = ReqResult(err)
       /\ (callers[c].pc = "req" /\ callers'[c].pc = "req") => callers'[c] = callers[c]]_vars

\* One Execute has been admitted in half-open and its req is running
\* while another Execute has just been rejected with ErrTooManyRequests.
C11_Witness ==
  /\ cb.state = StateHalfOpen
  /\ ret = [op |-> "Execute", err |-> ErrTooManyRequests, result |-> "nil"]
  /\ \E c \in Callers : callers[c].pc = "req" /\ callers[c].token = cb.generation
  /\ \E c \in Callers : callers[c] = Idle

\* The req of caller c ends in a panic: a panic that the deferred function
\* recovers as a non-nil value, or a panic(nil) recovered as nil.
ReqPanics(c) == (\E t \in Times : ExecutePanic(c, t)) \/ ExecuteRecoverNil(c)

\* C12 as stated: when req panics, the breaker makes one failure report
\* to afterRequest with the generation of the admission and the panic
\* reaches the caller of Execute, which does not return normally.
C12_PanicReportsFailureAndPropagates ==
  [][\A c \in Callers :
       ReqPanics(c) =>
         /\ ret'.err = "panic"
         /\ \E t \in Times :
              /\ cb' = afterRequest(Enter, callers[c].token, FALSE, t)
              /\ now' = t]_vars

\* A panic(nil) has been swallowed in half-open: Execute has returned
\* normally, the only admitted request of the generation is over and no
\* success or failure has been counted for it.
C12_Witness ==
  /\ ret = [op |-> "ExecuteRecoverNil", err |-> ErrNil, result |-> "nil"]
  /\ cb.state = StateHalfOpen
  /\ cb.counts.Requests = 1
  /\ cb.counts.TotalSuccesses + cb.counts.TotalFailures = 0
  /\ \A c \in Callers : callers[c] = Idle

\* C13: with interval > 0 and the breaker closed, an admission attempt
\* made at a time later than the recorded expiry starts a new generation
\* and then admits the request: the state stays closed, no callback is
\* called, the generation grows by one, the expiry is now + interval,
\* Requests is 1 and every other count is 0, and the token handed out is
\* the new generation; a report made in the closed state with a token of
\* an earlier generation, or made when the expiry has passed, counts no
\* success and no failure.
C13_ClosedIntervalRollover ==
  [][\A c \in Callers, t \in Times :
       /\ (Admission(c, t) /\ cb.state = StateClosed /\ cb.interval > 0
             /\ Before(cb.expiry, t))
            => /\ cb'.state = StateClosed
               /\ cb'.onStateChange = << >>
               /\ cb'.generation = cb.generation + 1
               /\ cb'.expiry = t + cb.interval
               /\ cb'.counts = CountsOnRequest(ZeroCounts)
               /\ ret'.err = ErrNil
               /\ callers'[c].token = cb'.generation
       /\ \A success \in BOOLEAN :
            (Report(c, t, success) /\ cb.state = StateClosed /\ cb.interval > 0
              /\ (callers[c].token < cb.generation \/ Before(cb.expiry, t)))
            => /\ cb'.state = StateClosed
               /\ cb'.counts = currentState(cb, t).counts
               /\ cb'.generation = currentState(cb, t).generation]_vars

\* An admission has just been counted as the only request of the second
\* closed generation, whose expiry was set at this clock reading, while
\* another caller still holds a token of the first generation.
C13_Witness ==
  /\ ret.op \in AdmissionOps
  /\ ret.err = ErrNil
  /\ cb.state = StateClosed
  /\ cb.interval > 0
  /\ cb.generation = 2
  /\ cb.expiry = now + cb.interval
  /\ cb.counts = CountsOnRequest(ZeroCounts)
  /\ \E c, d \in Callers :
       /\ callers[c].pc # "idle" /\ callers[c].token = 2
       /\ callers[d].pc # "idle" /\ callers[d].token = 1

\* C14: Settings with Interval <= 0 give interval 0 and a closed state
\* without expiry; with interval 0, a step that finds the breaker closed
\* and leaves it closed keeps the generation and the zero expiry and
\* lowers none of Requests, TotalSuccesses and TotalFailures, whatever the
\* clock reads; the generation changes only together with the state.
C14_NoIntervalNoRollover ==
  [][/\ \A st \in AllSettings, t \in 0..MaxTime :
          st.Interval <= 0 =>
            /\ NewCircuitBreaker(st, t).interval = 0
            /\ NewCircuitBreaker(st, t).expiry = zeroTime
     /\ (cb.interval = 0 /\ cb.state = StateClosed)
          => /\ cb.expiry = zeroTime
             /\ \A t \in Times : currentState(cb, t) = cb
             /\ cb'.state = StateClosed =>
                  /\ cb'.generation = cb.generation
                  /\ cb'.expiry = zeroTime
                  /\ cb'.counts.Requests >= cb.counts.Requests
                  /\ cb'.counts.TotalSuccesses >= cb.counts.TotalSuccesses
                  /\ cb'.counts.TotalFailures >= cb.counts.TotalFailures
             /\ cb'.generation # cb.generation => cb'.state # StateClosed]_vars

\* Without an interval the first closed generation is still running at
\* the latest clock reading, with MaxCount requests admitted and reported.
C14_Witness ==
  /\ cb.interval = 0
  /\ cb.state = StateClosed
  /\ cb.generation = 1
  /\ now = MaxTime
  /\ cb.counts.Requests = MaxCount
  /\ cb.counts.TotalSuccesses + cb.counts.TotalFailures = MaxCount
  /\ cb.counts.TotalSuccesses >= 1

\* Some operation that works on the breaker is made in this step.
Operates ==
  \/ \E c \in Callers, t \in Times : Admission(c, t)
  \/ \E c \in Callers, t \in Times, success \in BOOLEAN : Report(c, t, success)
  \/ \E t \in Times : State(t)

\* C15: an operation that changes the state of the breaker calls
\* onStateChange once, with from the state before and to the state after,
\* and at that call the breaker already shows the new state, the
\* generation plus one and zero counts; an operation that leaves the
\* state as it was (a closed-state interval rollover included) calls it
\* not at all; setState to the current state changes nothing.
C15_OnStateChangeOncePerChange ==
  [][Operates =>
       /\ IF cb'.state # cb.state
            THEN /\ cb'.onStateChange = << <<cb.state, cb'.state>> >>
                 /\ cb'.seen = << <<cb'.state, cb.generation + 1, ZeroCounts>> >>
            ELSE /\ cb'.onStateChange = << >>
                 /\ cb'.seen = << >>
       /\ setState(cb', cb'.state, now') = cb']_vars

\* A success report has just closed the half-open breaker: the callback
\* was called once, with (half-open, closed), and saw the closed state
\* with its new generation and zero counts.
C15_Witness ==
  /\ ret.op \in ReportOps
  /\ cb.state = StateClosed
  /\ cb.onStateChange = << <<StateHalfOpen, StateClosed>> >>
  /\ cb.seen = << <<StateClosed, cb.generation, ZeroCounts>> >>
  /\ cb.generation = MaxGen

\* The expiry that a generation of b started at time t gets.
NewExpiry(b, t) ==
  CASE b.state = StateClosed -> IF b.interval = 0 THEN zeroTime ELSE t + b.interval
  []   b.state = StateOpen -> t + b.timeout
  []   OTHER -> zeroTime

\* C16: in every step the generation stays or grows by one; it grows
\* exactly when the state changes or a closed-state interval has expired
\* at the clock reading of an operation, and in that step the counts are
\* cleared (at most the admitted request of the same operation is counted
\* after the clearing) and the expiry is set for the new generation; in a
\* step that keeps the generation, state and expiry stay and none of
\* Requests, TotalSuccesses and TotalFailures goes down.
C16_GenerationStepsWithCountsReset ==
  [][/\ cb'.generation \in {cb.generation, cb.generation + 1}
     /\ (cb'.generation = cb.generation + 1)
          <=> (cb'.state # cb.state
                \/ (Operates /\ cb.state = StateClosed /\ ~IsZero(cb.expiry)
                      /\ Before(cb.expiry, now')))
     /\ (cb'.generation = cb.generation + 1)
          => /\ cb'.counts \in {ZeroCounts, CountsOnRequest(ZeroCounts)}
             /\ cb'.counts # ZeroCounts => ret'.op \in AdmissionOps /\ ret'.err = ErrNil
             /\ cb'.expiry = NewExpiry(cb', now')
     /\ (cb'.generation = cb.generation)
          => /\ cb'.state = cb.state
             /\ cb'.expiry = cb.expiry
             /\ cb'.counts.Requests >= cb.counts.Requests
             /\ cb'.counts.TotalSuccesses >= cb.counts.TotalSuccesses
             /\ cb'.counts.TotalFailures >= cb.counts.TotalFailures]_vars

\* A failure report has just tripped a closed breaker whose generation
\* had counted requests: the open generation starts with zero counts and
\* the expiry now + timeout.
C16_Witness ==
  /\ ret.op \in ReportOps
  /\ cb.onStateChange = << <<StateClosed, StateOpen>> >>
  /\ cb.state = StateOpen
  /\ cb.generation = 2
  /\ cb.counts = ZeroCounts
  /\ cb.expiry = now + cb.timeout
  /\ \E c \in Callers : callers[c].pc = "done" /\ callers[c].token = 1

\* C17: an admission attempt that beforeRequest rejects (ErrOpenState or
\* ErrTooManyRequests) leaves state, generation, counts and expiry of the
\* breaker as they were and leaves the caller without a reporter; a
\* caller comes to hold a reporter or a running req only by an admission
\* that returned no error, and only such a caller makes a report.
C17_RejectedAdmissionCountsNothing ==
  [][\A c \in Callers, t \in Times :
       /\ (Admission(c, t) /\ beforeRequest(Enter, t).err # ErrNil)
            => /\ ret'.err \in {ErrOpenState, ErrTooManyRequests}
               /\ Observed(cb') = Observed(cb)
               /\ cb'.expiry = cb.expiry
               /\ callers'[c] = Idle
       /\ (callers[c].pc = "idle" /\ callers'[c].pc # "idle")
            => /\ ret'.op \in AdmissionOps
               /\ ret'.err = ErrNil
               /\ beforeRequest(Enter, now').err = ErrNil
       /\ \A success \in BOOLEAN :
            Report(c, t, success) => callers[c].pc \in {"req", "done"}]_vars

\* Allow has just been rejected with ErrTooManyRequests: the half-open
\* quota of two is used up by requests not yet reported, and the rejected
\* caller holds nothing.
C17_Witness ==
  /\ ret = [op |-> "Allow", err |-> ErrTooManyRequests, result |-> "nil"]
  /\ cb.state = StateHalfOpen
  /\ cb.maxRequests = 2
  /\ cb.counts = [ZeroCounts EXCEPT !.Requests = 2]
  /\ \E c \in Callers : callers[c] = Idle

\* C18: while the breaker is half-open it has no expiry and currentState
\* changes nothing at any clock reading; State() queries, rejected
\* admissions and reports with a token other than the current generation
\* leave state, generation and counts as they were, an admitted request
\* only adds one to Requests, and the state is left only in a step that
\* is a report carrying the current generation.
C18_HalfOpenIgnoresTime ==
  [][cb.state = StateHalfOpen =>
       /\ cb.expiry = zeroTime
       /\ \A t \in Times : currentState(cb, t) = cb
       /\ (\E t \in Times : State(t)) => Observed(cb') = Observed(cb)
       /\ \A c \in Callers, t \in Times :
            /\ Admission(c, t) =>
                 /\ cb'.state = cb.state
                 /\ cb'.generation = cb.generation
                 /\ cb'.counts \in {cb.counts, CountsOnRequest(cb.counts)}
                 /\ ret'.err # ErrNil => cb'.counts = cb.counts
            /\ \A success \in BOOLEAN :
                 (Report(c, t, success) /\ callers[c].token # cb.generation)
                   => Observed(cb') = Observed(cb)
       /\ cb'.state # StateHalfOpen =>
            \E c \in Callers, t \in Times, success \in BOOLEAN :
              /\ Report(c, t, success)
              /\ callers[c].token = cb.generation
              /\ cb'.state = IF success THEN StateClosed ELSE StateOpen]_vars

\* A State() query made at the latest clock reading has found the breaker
\* half-open and left it so, with one request of the half-open generation
\* admitted and not yet reported.
C18_Witness ==
  /\ ret.op = "State"
  /\ now = MaxTime
  /\ cb.state = StateHalfOpen
  /\ cb.onStateChange = << >>
  /\ cb.counts = CountsOnRequest(ZeroCounts)
  /\ \E c \in Callers : callers[c].pc # "idle" /\ callers[c].token = cb.generation

\* C19: in every reachable open state all counts are zero and no caller
\* holds a token of the current generation; so whenever the token of a
\* report equals the generation that currentState returns, at any clock
\* reading, the state it returns is closed or half-open.
C19_NoCurrentTokenWhileOpen ==
  /\ cb.state = StateOpen =>
       /\ cb.counts = ZeroCounts
       /\ \A c \in Callers : callers[c].pc # "idle" => callers[c].token < cb.generation
  /\ \A c \in Callers, t \in Times :
       (callers[c].pc # "idle" /\ callers[c].token = currentState(cb, t).generation)
         => currentState(cb, t).state \in {StateClosed, StateHalfOpen}

\* The breaker is open after a trip, a request has just been rejected
\* with ErrOpenState, and a caller still holds a reporter of the closed
\* generation before.
C19_Witness ==
  /\ cb.state = StateOpen
  /\ ret.err = ErrOpenState
  /\ \E c \in Callers : callers[c].pc = "done" /\ callers[c].token = cb.generation - 1

\* C20: while the req of some caller is running nobody holds the mutex,
\* and (as long as the bounds of the model allow the operation) State(),
\* Counts(), an admission by an idle caller and the report of another
\* caller can be made.
C20_ReqRunsOutsideLock ==
  (\E c \in Callers : callers[c].pc = "req") =>
    /\ mutex = Unlocked
    /\ ENABLED Counts
    /\ cb.generation < MaxGen =>
         /\ ENABLED (\E t \in Times : State(t))
         /\ \A d \in Callers :
              /\ (callers[d].pc = "idle" /\ CanAdmit)
                   => ENABLED (\E t \in Times : Execute(d, t) \/ Allow(d, t))
              /\ (callers[d].pc = "req" /\ CanReport)
                   => ENABLED (\E t \in Times : ExecuteReturn(d, t, ErrNil))
              /\ (callers[d].pc = "done" /\ callers[d].reports < MaxReports /\ CanReport)
                   => ENABLED (\E t \in Times : Done(d, t, TRUE))

\* Two requests of the same generation are running at once, and Counts()
\* has just been answered.
C20_Witness ==
  /\ \A c \in Callers : callers[c].pc = "req" /\ callers[c].token = cb.generation
  /\ ret.op = "Counts"
  /\ cb.counts.Requests = NCallers
  /\ mutex = Unlocked

\* C21: a new breaker is closed, and a step that changes the state is one
\* of: closed to open, by a failure report of the current generation
\* after which readyToTrip holds of the counts; open to half-open, by an
\* operation whose clock reading is later than the expiry; half-open to
\* closed, by a success report of the current generation; half-open to
\* open, by a failure report of the current generation.
C21_OnlyFourTransitions ==
  [][/\ \A st \in AllSettings, t \in 0..MaxTime :
          NewCircuitBreaker(st, t).state = StateClosed
     /\ cb'.state # cb.state =>
          \/ /\ cb.state = StateClosed
             /\ cb'.state = StateOpen
             /\ \E c \in Callers, t \in Times :
                  /\ Report(c, t, FALSE)
                  /\ callers[c].token = currentState(cb, t).generation
                  /\ readyToTrip(cb, CountsOnFailure(currentState(cb, t).counts))
          \/ /\ cb.state = StateOpen
             /\ cb'.state = StateHalfOpen
             /\ Operates
             /\ Before(cb.expiry, now')
          \/ /\ cb.state = StateHalfOpen
             /\ cb'.state = StateClosed
             /\ \E c \in Callers, t \in Times :
                  Report(c, t, TRUE) /\ callers[c].token = cb.generation
          \/ /\ cb.state = StateHalfOpen
             /\ cb'.state = StateOpen
             /\ \E c \in Callers, t \in Times :
                  Report(c, t, FALSE) /\ callers[c].token = cb.generation]_vars

\* A failure report has just sent the half-open breaker back to open, in
\* the fourth generation: closed, open and half-open came before.
C21_Witness ==
  /\ ret.op \in ReportOps
  /\ cb.state = StateOpen
  /\ cb.generation = MaxGen
  /\ cb.onStateChange = << <<StateHalfOpen, StateOpen>> >>
  /\ cb.interval = 0

\* C22: as long as no reporter has been called twice, a step that takes
\* the breaker from half-open to closed is the success report that brings
\* TotalSuccesses and ConsecutiveSuccesses to maxRequests, with Requests
\* equal to maxRequests and TotalFailures 0 (the counts the success rule
\* sees before the new generation clears them).
C22_ClosesAfterMaxRequestsSuccessfulProbes ==
  [][(cb.state = StateHalfOpen /\ cb'.state = StateClosed /\ ~misused')
       => LET counts == CountsOnSuccess(cb.counts)
          IN  /\ counts.Requests = cb.maxRequests
              /\ counts.TotalSuccesses = cb.maxRequests
              /\ counts.ConsecutiveSuccesses = cb.maxRequests
              /\ counts.TotalFailures = 0
              /\ counts.ConsecutiveFailures = 0]_vars

\* With maxRequests = 2 and no reporter called twice, a report has just
\* closed the half-open breaker.
C22_Witness ==
  /\ ~misused
  /\ cb.maxRequests = 2
  /\ ret.op \in ReportOps
  /\ cb.state = StateClosed
  /\ cb.counts = ZeroCounts
  /\ cb.onStateChange = << <<StateHalfOpen, StateClosed>> >>

\* C23: with well-behaved callers under Fairness, a half-open breaker
\* (of a generation below the bound MaxGen of the model) eventually is
\* closed or open, and an open breaker eventually is half-open; an
\* operation of any kind made in the open state at a clock reading later
\* than the expiry leaves the breaker half-open.
C23_HalfOpenAndOpenAreLeft ==
  /\ (cb.state = StateHalfOpen /\ cb.generation < MaxGen)
       ~> (cb.state \in {StateClosed, StateOpen})
  /\ (cb.state = StateOpen /\ cb.generation < MaxGen)
       ~> (cb.state = StateHalfOpen)
  /\ [][(Operates /\ cb.state = StateOpen /\ Before(cb.expiry, now'))
          => cb'.state = StateHalfOpen]_vars

\* The half-open breaker with maxRequests = 2 has been closed by the
\* reports of well-behaved callers, after a trip and an expired timeout.
C23_Witness ==
  /\ cb.maxRequests = 2
  /\ cb.state = StateClosed
  /\ cb.generation = MaxGen
  /\ cb.onStateChange = << <<StateHalfOpen, StateClosed>> >>
  /\ ~misused
  /\ \A c \in Callers : callers[c] = Idle

====
